---- MODULE Spec2Model ----
(***************************************************************************)
(* InstagramBot (src/main.py): one bot object, its configuration, its      *)
(* browser session and the control flow of run().                          *)
(*                                                                         *)
(* Every browser-driver call (driver.get, wait.until, click, send_keys,    *)
(* submit, quit) is an interaction with an external page: it either        *)
(* succeeds or raises, chosen nondeterministically.  A driver call on a    *)
(* session that was quit always raises.                                    *)
(*                                                                         *)
(* Probabilities are kept in hundredths (0.2 is 20), random.random() is a  *)
(* roll in 0..99.  The emoji closing each default comment is written as    *)
(* its code point.  None and 0 are both falsy arguments of random_sleep    *)
(* and are both written 0.                                                 *)
(*                                                                         *)
(* Not modelled: a config file that is not valid JSON (the constructor     *)
(* raises and no bot exists), and BaseException such as KeyboardInterrupt. *)
(***************************************************************************)
EXTENDS Integers, Sequences, FiniteSets, TLC

VARIABLES
    config_file,     \* what open(config_path) finds: [exists, json]
    config,          \* self.config
    driver,          \* self.driver: "open" or "quit"
    pc,              \* position of the caller inside run()
    runs,            \* calls of run() made on this object
    target_users,    \* run()'s target_users, after the isinstance conversion
    ui,              \* index in target_users of the profile being handled
    posts,           \* interact_with_user's posts (the sliced list of links)
    pi,              \* enumerate index (1-based) of the post being handled
    steps,           \* interaction steps attempted on the current post
    visits,          \* this run's calls of interact_with_user
    likes,           \* this run's clicked like buttons
    cleanups,        \* this run's calls of cleanup()
    loginOk,         \* login() returned True in this run
    firstErr,        \* <<ui, pi>> of this run's first post-level error
    usedAfterClose   \* a driver call was issued on a quit session

vars == <<config_file, config, driver, pc, runs, target_users, ui, posts, pi,
          steps, visits, likes, cleanups, loginOk, firstErr, usedAfterClose>>

(***************************************************************************)
(* Bounds                                                                  *)
(***************************************************************************)
MaxFound == 2      \* most "article a" links a profile page shows
MaxTargets == 2    \* longest target list handed to run()
MaxRuns == 2       \* calls of run() on one bot object

Min(a, b) == IF a < b THEN a ELSE b
Max(a, b) == IF a > b THEN a ELSE b

(***************************************************************************)
(* Configuration                                                           *)
(***************************************************************************)
Fields == {"wait_time", "posts_per_user", "max_likes_per_session",
           "random_comments", "comment_probability"}

DefaultConfig ==
    [wait_time |-> [min |-> 2, max |-> 4],
     posts_per_user |-> 3,
     max_likes_per_session |-> 50,
     random_comments |-> <<"Great post! U+1F44D", "Amazing! U+1F525",
                           "Love this! U+2764 U+FE0F", "Awesome content! U+2728">>,
     comment_probability |-> 20]

\* A JSON object holding the one key f.
OnlyField(f, v) == [g \in {f} |-> v]

\* A JSON object spelling out every field, the ones in over changed.
FullFile(over) ==
    [g \in Fields |-> IF g \in DOMAIN over THEN over[g] ELSE DefaultConfig[g]]

JsonObjects ==
    { OnlyField("posts_per_user", 1),
      OnlyField("wait_time", [min |-> 1, max |-> 2]),
      OnlyField("max_likes_per_session", 1),
      OnlyField("random_comments", <<"Nice!">>),
      OnlyField("comment_probability", 100),
      FullFile([posts_per_user |-> -1]),
      FullFile([posts_per_user |-> 0]),
      FullFile([posts_per_user |-> 1, comment_probability |-> 0]),
      FullFile([posts_per_user |-> 2, max_likes_per_session |-> 1]),
      FullFile([comment_probability |-> 100, random_comments |-> <<>>]) }

FileNotFound == [exists |-> FALSE, json |-> OnlyField("", 0)]

ConfigFiles == {FileNotFound} \cup {[exists |-> TRUE, json |-> j] : j \in JsonObjects}

load_config_other_default(file) ==
    IF file.exists
    THEN file.json
    ELSE [DefaultConfig EXCEPT !.posts_per_user = 0]

load_config(file) ==
    IF file.exists
    THEN file.json
    ELSE DefaultConfig

\* random_sleep raises KeyError when an argument is falsy and the
\* configuration has no wait_time to take its place.
random_sleep_raises(min_time, max_time) ==
    (min_time = 0 \/ max_time = 0) /\ "wait_time" \notin DOMAIN config

\* Python's s[:n]
PySlice(s, n) ==
    IF n >= 0
    THEN SubSeq(s, 1, Min(n, Len(s)))
    ELSE SubSeq(s, 1, Max(Len(s) + n, 0))

(***************************************************************************)
(* Inputs of run()                                                         *)
(***************************************************************************)
Users == {"chairo_store101", "sandanu_hewage"}

UserLists == UNION {[1..n -> Users] : n \in 0..MaxTargets}

\* A list of names, a single name, or a value that is neither (not iterable).
TargetInputs ==
    {[type |-> "list", s |-> "", l |-> l] : l \in UserLists}
    \cup {[type |-> "str", s |-> u, l |-> <<>>] : u \in Users}
    \cup {[type |-> "other", s |-> "", l |-> <<>>]}

NoTargets == [type |-> "list", s |-> "", l |-> <<>>]

Rolls == 0..99

(***************************************************************************)
(* __init__                                                                *)
(***************************************************************************)
Init ==
    /\ config_file \in ConfigFiles
    /\ config = load_config(config_file)
    /\ driver = "open"
    /\ pc = "ready"
    /\ runs = 0
    /\ target_users = NoTargets
    /\ ui = 0
    /\ posts = <<>>
    /\ pi = 0
    /\ steps = <<>>
    /\ visits = <<>>
    /\ likes = 0
    /\ cleanups = 0
    /\ loginOk = FALSE
    /\ firstErr = <<0, 0>>
    /\ usedAfterClose = FALSE

\* A driver call is being issued: it is a use after close if the session was quit.
DriverCall == usedAfterClose' = (usedAfterClose \/ driver = "quit")

(***************************************************************************)
(* run(): entry                                                            *)
(***************************************************************************)
Run ==
    /\ pc \in {"ready", "returned"}
    /\ runs < MaxRuns
    /\ \E t \in TargetInputs :
         target_users' = IF t.type = "str"
                         THEN [type |-> "list", s |-> "", l |-> <<t.s>>]
                         ELSE t
    /\ runs' = runs + 1
    /\ pc' = "login"
    /\ ui' = 0
    /\ posts' = <<>>
    /\ pi' = 0
    /\ steps' = <<>>
    /\ visits' = <<>>
    /\ likes' = 0
    /\ cleanups' = 0
    /\ loginOk' = FALSE
    /\ firstErr' = <<0, 0>>
    /\ UNCHANGED <<config_file, config, driver, usedAfterClose>>

(***************************************************************************)
(* login(), and run()'s test of its result                                 *)
(***************************************************************************)
Login_no_finally ==
    /\ pc = "login"
    /\ DriverCall
    /\ \E outcome \in {"ok", "timeout", "error"} :
         /\ outcome = "ok" => driver = "open"
         /\ loginOk' = (outcome = "ok")
         /\ pc' = IF outcome = "ok" THEN "for_user" ELSE "returned"
    /\ UNCHANGED <<config_file, config, driver, runs, target_users, ui, posts,
                   pi, steps, visits, likes, cleanups, firstErr>>

Login_result_ignored ==
    /\ pc = "login"
    /\ DriverCall
    /\ \E outcome \in {"ok", "timeout", "error"} :
         /\ outcome = "ok" => driver = "open"
         /\ loginOk' = (outcome = "ok")
         /\ pc' = "for_user"
    /\ UNCHANGED <<config_file, config, driver, runs, target_users, ui, posts,
                   pi, steps, visits, likes, cleanups, firstErr>>

Login ==
    /\ pc = "login"
    /\ DriverCall
    /\ \E outcome \in {"ok", "timeout", "error"} :
         /\ outcome = "ok" => driver = "open"
         /\ loginOk' = (outcome = "ok")
         /\ pc' = IF outcome = "ok" THEN "for_user" ELSE "cleanup"
    /\ UNCHANGED <<config_file, config, driver, runs, target_users, ui, posts,
                   pi, steps, visits, likes, cleanups, firstErr>>

(***************************************************************************)
(* run(): the loop over the targets                                        *)
(***************************************************************************)
\* for username in target_users, on a value that is not iterable: TypeError,
\* caught by run()'s except clause, then the finally clause.
RunTypeError ==
    /\ pc = "for_user"
    /\ target_users.type = "other"
    /\ pc' = "cleanup"
    /\ UNCHANGED <<config_file, config, driver, runs, target_users, ui, posts,
                   pi, steps, visits, likes, cleanups, loginOk, firstErr,
                   usedAfterClose>>

\* The loop takes the next username and calls interact_with_user.
CallInteract ==
    /\ pc = "for_user"
    /\ target_users.type = "list"
    /\ ui < Len(target_users.l)
    /\ ui' = ui + 1
    /\ visits' = Append(visits, [user |-> target_users.l[ui + 1],
                                 loaded |-> FALSE, opened |-> 0])
    /\ posts' = <<>>
    /\ pi' = 0
    /\ steps' = <<>>
    /\ pc' = "profile"
    /\ UNCHANGED <<config_file, config, driver, runs, target_users, likes,
                   cleanups, loginOk, firstErr, usedAfterClose>>

\* The loop is exhausted: the try block ends, the finally clause runs.
LoopExit ==
    /\ pc = "for_user"
    /\ target_users.type = "list"
    /\ ui = Len(target_users.l)
    /\ pc' = "cleanup"
    /\ UNCHANGED <<config_file, config, driver, runs, target_users, ui, posts,
                   pi, steps, visits, likes, cleanups, loginOk, firstErr,
                   usedAfterClose>>

\* interact_with_user returns to the loop body, which sleeps (4, 7); an
\* exception there would be caught by run()'s except clause.
ReturnToRun ==
    pc' = IF random_sleep_raises(4, 7) THEN "cleanup" ELSE "for_user"

(***************************************************************************)
(* interact_with_user: the profile page and its post links                 *)
(***************************************************************************)
\* What lines 109-115 yield: the sliced list of links, or "raise".
\* nav: driver.get succeeded; found: links located (0: the wait timed out).
ProfilePosts(nav, found) ==
    IF /\ nav
       /\ driver = "open"
       /\ ~random_sleep_raises(0, 0)
       /\ found > 0
       /\ "posts_per_user" \in DOMAIN config
    THEN [raised |-> FALSE,
          posts |-> PySlice([i \in 1..found |-> i], config["posts_per_user"])]
    ELSE [raised |-> TRUE, posts |-> <<>>]

Profile_error_propagates ==
    /\ pc = "profile"
    /\ DriverCall
    /\ \E nav \in BOOLEAN, found \in 0..MaxFound :
         LET r == ProfilePosts(nav, found) IN
         /\ posts' = r.posts
         /\ visits' = [visits EXCEPT ![ui].loaded = ~r.raised]
         /\ pc' = IF r.raised THEN "cleanup" ELSE "for_post"
    /\ UNCHANGED <<config_file, config, driver, runs, target_users, ui, pi,
                   steps, likes, cleanups, loginOk, firstErr>>

\* On an exception the outer handler (145-146) logs it, interact_with_user
\* returns, and run() sleeps (4, 7) and goes on with the loop.
Profile ==
    /\ pc = "profile"
    /\ DriverCall
    /\ \E nav \in BOOLEAN, found \in 0..MaxFound :
         LET r == ProfilePosts(nav, found) IN
         /\ posts' = r.posts
         /\ visits' = [visits EXCEPT ![ui].loaded = ~r.raised]
         /\ IF r.raised THEN ReturnToRun ELSE pc' = "for_post"
    /\ UNCHANGED <<config_file, config, driver, runs, target_users, ui, pi,
                   steps, likes, cleanups, loginOk, firstErr>>

\* The per-post handler (141-143): log, continue with the next post.
PostError(i) ==
    /\ pc' = "for_post"
    /\ firstErr' = IF firstErr = <<0, 0>> THEN <<ui, i>> ELSE firstErr

PostGoesOn(next) ==
    /\ pc' = next
    /\ firstErr' = firstErr

Step(name, ok) == [step |-> name, ok |-> ok]

\* for i, post in enumerate(posts): post.click(), random_sleep()
OpenPost ==
    /\ pc = "for_post"
    /\ pi < Len(posts)
    /\ pi' = pi + 1
    /\ visits' = [visits EXCEPT ![ui].opened = @ + 1]
    /\ DriverCall
    /\ \E clicked \in BOOLEAN :
         LET ok == clicked /\ driver = "open" /\ ~random_sleep_raises(0, 0) IN
         /\ steps' = <<Step("open", ok)>>
         /\ IF ok
            THEN PostGoesOn("like")
            ELSE PostError(pi + 1)
    /\ UNCHANGED <<config_file, config, driver, runs, target_users, ui, posts,
                   likes, cleanups, loginOk>>

\* The posts are exhausted: interact_with_user returns, run() sleeps (4, 7).
ProfileDone ==
    /\ pc = "for_post"
    /\ pi = Len(posts)
    /\ ReturnToRun
    /\ UNCHANGED <<config_file, config, driver, runs, target_users, ui, posts,
                   pi, steps, visits, likes, cleanups, loginOk, firstErr,
                   usedAfterClose>>

(***************************************************************************)
(* interact_with_user: like, comment, close                                *)
(***************************************************************************)
Like_enforces_cap ==
    /\ pc = "like"
    /\ DriverCall
    /\ \E located \in BOOLEAN, clicked \in BOOLEAN :
         LET ok == located /\ clicked /\ driver = "open" IN
         /\ steps' = Append(steps, Step("like", ok))
         /\ likes' = IF ok /\ likes < config["max_likes_per_session"]
                     THEN likes + 1 ELSE likes
         /\ IF ok THEN PostGoesOn("maybe_comment") ELSE PostError(pi)
    /\ UNCHANGED <<config_file, config, driver, runs, target_users, ui, posts,
                   pi, visits, cleanups, loginOk>>

Like_error_ends_profile ==
    /\ pc = "like"
    /\ DriverCall
    /\ \E located \in BOOLEAN, clicked \in BOOLEAN :
         LET ok == located /\ clicked /\ driver = "open" IN
         /\ steps' = Append(steps, Step("like", ok))
         /\ likes' = IF ok THEN likes + 1 ELSE likes
         /\ IF ok
            THEN PostGoesOn("maybe_comment")
            ELSE /\ ReturnToRun
                 /\ firstErr' = IF firstErr = <<0, 0>> THEN <<ui, pi>> ELSE firstErr
    /\ UNCHANGED <<config_file, config, driver, runs, target_users, ui, posts,
                   pi, visits, cleanups, loginOk>>

\* Wait for the Like icon and click it (123-128).  wait.until returns the
\* element or raises, so the test of like_button is always true.
Like ==
    /\ pc = "like"
    /\ DriverCall
    /\ \E located \in BOOLEAN, clicked \in BOOLEAN :
         LET ok == located /\ clicked /\ driver = "open" IN
         /\ steps' = Append(steps, Step("like", ok))
         /\ likes' = IF ok THEN likes + 1 ELSE likes
         /\ IF ok THEN PostGoesOn("maybe_comment") ELSE PostError(pi)
    /\ UNCHANGED <<config_file, config, driver, runs, target_users, ui, posts,
                   pi, visits, cleanups, loginOk>>

\* random.random() < comment_probability, then random.choice(random_comments)
\* (131-132).  A missing key (KeyError) or an empty pool (IndexError) raises
\* before leave_comment is entered, so the per-post handler takes it.
MaybeComment ==
    /\ pc = "maybe_comment"
    /\ IF "comment_probability" \notin DOMAIN config
       THEN PostError(pi)
       ELSE \E roll \in Rolls :
              IF roll < config["comment_probability"]
              THEN IF "random_comments" \in DOMAIN config
                      /\ Len(config["random_comments"]) > 0
                   THEN \E c \in 1..Len(config["random_comments"]) :
                          PostGoesOn("comment")
                   ELSE PostError(pi)
              ELSE PostGoesOn("close")
    /\ UNCHANGED <<config_file, config, driver, runs, target_users, ui, posts,
                   pi, steps, visits, likes, cleanups, loginOk, usedAfterClose>>

leave_comment_raises ==
    /\ pc = "comment"
    /\ DriverCall
    /\ \E typed \in BOOLEAN :
         LET ok == typed /\ driver = "open" /\ ~random_sleep_raises(0, 0) IN
         /\ steps' = Append(steps, Step("comment", ok))
         /\ IF ok THEN PostGoesOn("close") ELSE PostError(pi)
    /\ UNCHANGED <<config_file, config, driver, runs, target_users, ui, posts,
                   pi, visits, likes, cleanups, loginOk>>

\* leave_comment (148-160) catches every exception of its own body.
leave_comment ==
    /\ pc = "comment"
    /\ DriverCall
    /\ \E typed \in BOOLEAN :
         LET ok == typed /\ driver = "open" /\ ~random_sleep_raises(0, 0) IN
         /\ steps' = Append(steps, Step("comment", ok))
         /\ PostGoesOn("close")
    /\ UNCHANGED <<config_file, config, driver, runs, target_users, ui, posts,
                   pi, visits, likes, cleanups, loginOk>>

\* Wait for the Close icon, click it, random_sleep() (135-139).
ClosePost ==
    /\ pc = "close"
    /\ DriverCall
    /\ \E clicked \in BOOLEAN :
         LET ok == clicked /\ driver = "open" /\ ~random_sleep_raises(0, 0) IN
         /\ steps' = Append(steps, Step("close", ok))
         /\ IF ok THEN PostGoesOn("for_post") ELSE PostError(pi)
    /\ UNCHANGED <<config_file, config, driver, runs, target_users, ui, posts,
                   pi, visits, likes, cleanups, loginOk>>

(***************************************************************************)
(* cleanup(), called from run()'s finally clause                           *)
(***************************************************************************)
\* driver.quit() may itself raise; cleanup logs that and returns, and the
\* session is then taken to be still open.
cleanup ==
    /\ pc = "cleanup"
    /\ cleanups' = cleanups + 1
    /\ \E quitted \in BOOLEAN :
         driver' = IF quitted THEN "quit" ELSE driver
    /\ pc' = "returned"
    /\ UNCHANGED <<config_file, config, runs, target_users, ui, posts, pi,
                   steps, visits, likes, loginOk, firstErr, usedAfterClose>>

Next ==
    \/ Run
    \/ Login
    \/ RunTypeError
    \/ CallInteract
    \/ LoopExit
    \/ Profile
    \/ OpenPost
    \/ ProfileDone
    \/ Like
    \/ MaybeComment
    \/ leave_comment
    \/ ClosePost
    \/ cleanup

Spec == Init /\ [][Next]_vars

(***************************************************************************)
(* Properties                                                              *)
(***************************************************************************)
InRun == pc \notin {"ready", "returned"}

Iterable == target_users.type = "list"

VisitedUsers == [i \in 1..Len(visits) |-> visits[i].user]

HasStep(name) == \E i \in 1..Len(steps) : steps[i].step = name

Rank(name) ==
    CASE name = "open" -> 1
      [] name = "like" -> 2
      [] name = "comment" -> 3
      [] name = "close" -> 4

\* C1: every call of run() invokes cleanup() exactly once: never before the
\* finally clause is reached, never twice, and once by the time run returns,
\* whichever step failed.
CleanupExactlyOnce ==
    /\ InRun => cleanups = 0
    /\ pc = "returned" => cleanups = 1

\* A call of run() returned after the loop over the targets raised an
\* unexpected exception, and cleanup was called once.
CleanupAfterLoopException ==
    /\ pc = "returned"
    /\ loginOk
    /\ ~Iterable
    /\ cleanups = 1

\* C2: when login() fails, run() calls interact_with_user for no target and
\* requests no profile page, and cleanup is still invoked.
LoginFailureVisitsNothing ==
    /\ ~loginOk => visits = <<>> /\ pc \notin {"for_user", "profile", "for_post"}
    /\ (pc = "returned" /\ ~loginOk) => cleanups = 1

\* run() returned after a failed login although it was given targets.
LoginFailedWithTargets ==
    /\ pc = "returned"
    /\ ~loginOk
    /\ Iterable
    /\ Len(target_users.l) = MaxTargets
    /\ visits = <<>>
    /\ cleanups = 1

\* C3 as stated: for every integer limit and every number of links found, the
\* posts opened on a visited profile never exceed posts_per_user.
OpenedWithinLimit ==
    "posts_per_user" \in DOMAIN config =>
        \A i \in 1..Len(visits) : visits[i].opened <= config["posts_per_user"]

\* C4: an error at a step of one post aborts neither the profile nor the run:
\* when interact_with_user is over every selected post has been opened, and
\* when run() is over every target has been visited.
PostErrorDoesNotAbort ==
    firstErr # <<0, 0>> =>
        /\ (pc \in {"for_user", "cleanup", "returned"} /\ ui > 0)
              => visits[ui].opened = Len(posts)
        /\ (pc = "returned" /\ Iterable) => Len(visits) = Len(target_users.l)

\* The first post of the first profile failed; its second post was opened
\* all the same, and so was a post of the second profile.
LaterPostsAfterError ==
    /\ pc = "returned"
    /\ firstErr = <<1, 1>>
    /\ Len(visits) = 2
    /\ visits[1].opened = 2
    /\ visits[2].opened >= 1

\* C5 as stated: a file overriding exactly one field leaves every other field
\* present in the configuration with its default value.
OneOverrideKeepsDefaults ==
    (config_file.exists /\ Cardinality(DOMAIN config_file.json) = 1) =>
        \A f \in Fields \ DOMAIN config_file.json :
            f \in DOMAIN config /\ config[f] = DefaultConfig[f]

\* C6: with the config file missing the configuration is exactly the default:
\* wait_time 2 to 4, 3 posts per user, at most 50 likes, the four comments,
\* comment probability 0.2.
MissingFileGivesDefaults ==
    ~config_file.exists =>
        /\ DOMAIN config = Fields
        /\ config["wait_time"] = [min |-> 2, max |-> 4]
        /\ config["posts_per_user"] = 3
        /\ config["max_likes_per_session"] = 50
        /\ config["random_comments"] =
              <<"Great post! U+1F44D", "Amazing! U+1F525",
                "Love this! U+2764 U+FE0F", "Awesome content! U+2728">>
        /\ config["comment_probability"] = 20

\* A bot built without a config file is running with the default limit.
DefaultsInUse ==
    /\ ~config_file.exists
    /\ pc = "for_post"
    /\ Len(posts) = Min(MaxFound, config["posts_per_user"])

\* C7 as stated: under any sequence of calls, run() called again included, no
\* driver call is issued once cleanup() has quit the session.
NoDriverCallAfterClose == ~usedAfterClose

\* C8: the like cap is not enforced: whenever the like button of an opened
\* post is located and clicked the like is performed, whatever the likes
\* already performed and whatever max_likes_per_session.
LikeCapNotEnforced ==
    [][(pc = "like" /\ pc' = "maybe_comment") => likes' = likes + 1]_vars

\* The likes performed in one run exceed the configured cap.
LikesExceedCap ==
    /\ "max_likes_per_session" \in DOMAIN config
    /\ likes > config["max_likes_per_session"]

\* C9: after a successful login the profiles are visited in the order of the
\* target list, each once, and all of them by the time run() returns, also
\* when interact_with_user failed at profile level for earlier targets.
EveryTargetVisitedInOrder ==
    Iterable =>
        /\ Len(visits) = ui
        /\ Len(visits) <= Len(target_users.l)
        /\ VisitedUsers = SubSeq(target_users.l, 1, Len(visits))
        /\ (pc = "returned" /\ loginOk) => VisitedUsers = target_users.l

\* The first profile failed at profile level and the second was visited.
VisitAfterProfileFailure ==
    /\ pc = "returned"
    /\ loginOk
    /\ Len(target_users.l) = 2
    /\ Len(visits) = 2
    /\ ~visits[1].loaded

\* C10: the steps of one post are ordered open, like, comment, close; a
\* comment is attempted only after the like was clicked; a failed open or
\* like ends the post; whether leave_comment succeeds or not, the close step
\* follows it.
PostStepOrder ==
    /\ \A i, j \in 1..Len(steps) :
          i < j => Rank(steps[i].step) < Rank(steps[j].step)
    /\ \A j \in 1..Len(steps) :
          steps[j].step \in {"comment", "close"} =>
              \E i \in 1..(j - 1) : steps[i].step = "like" /\ steps[i].ok
    /\ \A i \in 1..Len(steps) :
          (steps[i].step \in {"open", "like"} /\ ~steps[i].ok) => i = Len(steps)
    /\ (HasStep("comment") /\ pc \notin {"close"}) => HasStep("close")

\* leave_comment failed on a post and the post's close step was attempted.
CloseAfterFailedComment ==
    /\ Len(steps) = 4
    /\ steps[3] = Step("comment", FALSE)
    /\ steps[4].step = "close"

====
